---------------------------- MODULE Spec2Model ----------------------------
(***************************************************************************)
(* Electricity consumption analysis: the Dataset Assembler                 *)
(* (anysis/combined_dataset.py) and the Streamlit reporting pass           *)
(* (anysis/streamlit_analytics.py).                                        *)
(*                                                                         *)
(* Numbers.  pandas works on float64.  A number is modelled as the exact   *)
(* rational n/d (d > 0), and NaN as 0/0, so that the mean of no rows is    *)
(* sum/count = 0/0 = NaN as in pandas.  Rounding error of float addition   *)
(* is not modelled.                                                        *)
(***************************************************************************)
EXTENDS Integers, Sequences, FiniteSets, TLC

VARIABLES
    fmt_in, fmt_out,            \* format_number: argument, returned text
    tree,                       \* ../preprocessingdata as os.listdir lists it
    apc,                        \* combined_dataset.py: "loop", then "done"
    ai, aj,                     \* position of the two for loops
    data_frames,                \* the list of tagged DataFrames
    all_data,                   \* pd.concat(data_frames), None while unbound
    printed,                    \* what print() has written, in order
    out_file,                   \* combined_dataset.csv, None while not written
    writes,                     \* number of to_csv calls
    csv,                        \* the rows of combined_dataset.csv on disk
    cache,                      \* st.cache's entry for load_data(), None if empty
    data,                       \* main(): what load_data() returned, latest pass
    widgets,                    \* the session's widget values, None before a pass
    report                      \* what the latest pass of main() showed

fmt_vars == <<fmt_in, fmt_out>>
asm_vars == <<tree, apc, ai, aj, data_frames, all_data, printed, out_file, writes>>
app_vars == <<csv, cache, data, widgets, report>>
vars == <<fmt_vars, asm_vars, app_vars>>

\* an unbound name or a file that does not exist is None; a bound one Some(x)
None == <<>>
Some(x) == <<x>>

(***************************************************************************)
(* Numbers                                                                 *)
(***************************************************************************)
NaN == [n |-> 0, d |-> 0]
Num(k) == [n |-> k, d |-> 1]
IsNaN(x) == x.d = 0
\* x >= k for an integer k; every comparison with NaN is False
Ge(x, k) == ~IsNaN(x) /\ x.n >= k * x.d
Abs(k) == IF k < 0 THEN -k ELSE k

(***************************************************************************)
(* Text of numbers: Python's format specification mini-language            *)
(***************************************************************************)
Digit(k) == SubSeq("0123456789", k + 1, k + 1)

\* the decimal digits of a natural number
Dec(k) == ToString(k)

\* ',' option: the integer part in groups of three digits
RECURSIVE DecGrouped(_)
DecGrouped(k) ==
    IF k < 1000 THEN Dec(k)
    ELSE DecGrouped(k \div 1000) \o "," \o Digit((k \div 100) % 10)
             \o Digit((k \div 10) % 10) \o Digit(k % 10)

\* |num/den| in hundredths, rounded to nearest.  At an exact decimal tie
\* CPython rounds the stored double (half to even when the double is the tie
\* itself); the value sets of this module hold no tie where that differs
\* from half-to-even on the rational.
Hundredths(num, den) ==
    LET a == Abs(num) * 100
        q == a \div den
        r == a % den
    IN  IF 2 * r > den \/ (2 * r = den /\ q % 2 = 1) THEN q + 1 ELSE q

Frac2(h) == "." \o Digit((h \div 10) % 10) \o Digit(h % 10)
Sign(num) == IF num < 0 THEN "-" ELSE ""

\* f"{num/den:.2f}"
Fixed2(num, den) ==
    LET h == Hundredths(num, den)
    IN  Sign(num) \o Dec(h \div 100) \o Frac2(h)

\* f"{num/den:,.2f}"
Fixed2Grouped(num, den) ==
    LET h == Hundredths(num, den)
    IN  Sign(num) \o DecGrouped(h \div 100) \o Frac2(h)

\* f"{value:.2f}" and f"{value:,.2f}" of a float, NaN included
FormatF2(value) ==
    IF IsNaN(value) THEN "nan" ELSE Fixed2(value.n, value.d)
FormatF2Grouped(value) ==
    IF IsNaN(value) THEN "nan" ELSE Fixed2Grouped(value.n, value.d)

Million == 1000000
Thousand == 1000

\* the thresholds taken strictly: 1,000 and 1,000,000 fall one form lower
format_number_strict(value) ==
    IF ~IsNaN(value) /\ value.n > Million * value.d
        THEN Fixed2(value.n, value.d * Million) \o "M"
    ELSE IF ~IsNaN(value) /\ value.n > Thousand * value.d
        THEN Fixed2(value.n, value.d * Thousand) \o "K"
    ELSE FormatF2(value)

format_number(value) ==
    IF Ge(value, Million)
        THEN Fixed2(value.n, value.d * Million) \o "M"
    ELSE IF Ge(value, Thousand)
        THEN Fixed2(value.n, value.d * Thousand) \o "K"
    ELSE FormatF2(value)

(***************************************************************************)
(* Tables.  A timestamp is [y, mo, d, h]; a row of an input file holds     *)
(* DateTime, Total and the three rates; the Assembler adds Year and Month. *)
(***************************************************************************)
DT(y, mo, d, h) == [y |-> y, mo |-> mo, d |-> d, h |-> h]

Raw(dt, total, a, b, c) ==
    [DateTime |-> dt, Total |-> total, RATE_A |-> a, RATE_B |-> b, RATE_C |-> c]

RECURSIVE Flatten(_)
Flatten(frames) ==
    IF frames = <<>> THEN <<>> ELSE Head(frames) \o Flatten(Tail(frames))

(***************************************************************************)
(* Dataset Assembler (combined_dataset.py)                                 *)
(*                                                                         *)
(* tree is the listing of the root: a sequence of entries                  *)
(* [name, isdir, files], files a sequence of [name, parse], where parse    *)
(* is what pd.read_csv does with the file: [ok |-> TRUE, rows |-> ...] or  *)
(* [ok |-> FALSE, reason |-> ...] for a raised exception.                  *)
(***************************************************************************)
preprocessed_data_dir == "../preprocessingdata"
\* a printed line is the tuple of its parts
NoDataMessage == <<"No data found in preprocessingdata folder.">>
CreatedMessage == <<"Dataset created successfully!">>
SavedMessage == <<"Combined dataset saved as 'combined_dataset.csv'">>

\* os.path.join of two components
join(a, b) == a \o "/" \o b

\* str.endswith
endswith(s, suffix) ==
    /\ Len(s) >= Len(suffix)
    /\ SubSeq(s, Len(s) - Len(suffix) + 1, Len(s)) = suffix

\* file[:2]
FirstTwo(file) == SubSeq(file, 1, IF Len(file) < 2 THEN Len(file) ELSE 2)

\* the month taken as three characters
FirstThree(file) == SubSeq(file, 1, IF Len(file) < 3 THEN Len(file) ELSE 3)

TagRow(r, year, month) ==
    [DateTime |-> r.DateTime, Total |-> r.Total, RATE_A |-> r.RATE_A,
     RATE_B |-> r.RATE_B, RATE_C |-> r.RATE_C, Year |-> year, Month |-> month]

\* a slip in the slice: file[:3]
TagWide(df, year, file) ==
    [k \in 1 .. Len(df) |-> TagRow(df[k], year, FirstThree(file))]

\* df['Year'] = year; df['Month'] = file[:2]
Tag(df, year, file) ==
    [k \in 1 .. Len(df) |-> TagRow(df[k], year, FirstTwo(file))]

ErrorMessage(file_path, e) == <<"Error reading file", file_path, e>>

AtEntry == apc = "loop" /\ ai <= Len(tree)
AtFile == AtEntry /\ tree[ai].isdir /\ aj <= Len(tree[ai].files)
year == tree[ai].name
file == tree[ai].files[aj]

\* os.path.isdir(year_path) is False: the entry is passed over
SkipEntry ==
    /\ AtEntry
    /\ ~tree[ai].isdir
    /\ ai' = ai + 1
    /\ UNCHANGED <<tree, apc, aj, data_frames, all_data, printed, out_file, writes>>

\* the inner loop has run through os.listdir(year_path)
NextYear ==
    /\ AtEntry
    /\ tree[ai].isdir
    /\ aj > Len(tree[ai].files)
    /\ ai' = ai + 1
    /\ aj' = 1
    /\ UNCHANGED <<tree, apc, data_frames, all_data, printed, out_file, writes>>

\* not file.endswith(".csv")
SkipFile ==
    /\ AtFile
    /\ ~endswith(file.name, ".csv")
    /\ aj' = aj + 1
    /\ UNCHANGED <<tree, apc, ai, data_frames, all_data, printed, out_file, writes>>

ReadOk ==
    /\ AtFile
    /\ endswith(file.name, ".csv")
    /\ file.parse.ok
    /\ data_frames' = Append(data_frames, Tag(file.parse.rows, year, file.name))
    /\ aj' = aj + 1
    /\ UNCHANGED <<tree, apc, ai, all_data, printed, out_file, writes>>

\* the exception leaving the loops instead of being caught
ReadFailAbort ==
    /\ AtFile
    /\ endswith(file.name, ".csv")
    /\ ~file.parse.ok
    /\ printed' = Append(printed,
           ErrorMessage(join(join(preprocessed_data_dir, year), file.name),
                        file.parse.reason))
    /\ ai' = Len(tree) + 1
    /\ aj' = 1
    /\ UNCHANGED <<tree, apc, data_frames, all_data, out_file, writes>>

\* except Exception as e: print(...), and the loop goes on
ReadFail ==
    /\ AtFile
    /\ endswith(file.name, ".csv")
    /\ ~file.parse.ok
    /\ printed' = Append(printed,
           ErrorMessage(join(join(preprocessed_data_dir, year), file.name),
                        file.parse.reason))
    /\ aj' = aj + 1
    /\ UNCHANGED <<tree, apc, ai, data_frames, all_data, out_file, writes>>

\* the file written whether or not anything was parsed
CombineAlways ==
    /\ apc = "loop"
    /\ ai > Len(tree)
    /\ apc' = "done"
    /\ all_data' = Some(Flatten(data_frames))
    /\ out_file' = Some(Flatten(data_frames))
    /\ writes' = writes + 1
    /\ printed' = printed \o
           (IF data_frames # <<>> THEN <<CreatedMessage, SavedMessage>>
            ELSE <<NoDataMessage>>)
    /\ UNCHANGED <<tree, ai, aj, data_frames>>

\* if data_frames: concat, to_csv; else: print("No data found ...")
Combine ==
    /\ apc = "loop"
    /\ ai > Len(tree)
    /\ apc' = "done"
    /\ IF data_frames # <<>>
       THEN /\ all_data' = Some(Flatten(data_frames))
            /\ out_file' = Some(Flatten(data_frames))
            /\ writes' = writes + 1
            /\ printed' = printed \o <<CreatedMessage, SavedMessage>>
       ELSE /\ printed' = Append(printed, NoDataMessage)
            /\ UNCHANGED <<all_data, out_file, writes>>
    /\ UNCHANGED <<tree, ai, aj, data_frames>>

(***************************************************************************)
(* Directory trees the Assembler is run on                                 *)
(***************************************************************************)
MaxEntries == 2
MaxFiles == 2

RawA == Raw(DT(2020, 1, 5, 3), 10, 1, 2, 0)
RawB == Raw(DT(2020, 1, 5, 4), 20, 2, 0, 1)
RawC == Raw(DT(2021, 2, 9, 3), 20, 0, 1, 2)

Parsed(rows) == [ok |-> TRUE, rows |-> rows]
Failed(reason) == [ok |-> FALSE, reason |-> reason]

FilePool ==
    { [name |-> "01.csv", parse |-> Parsed(<<RawA, RawB>>)],
      [name |-> "02.csv", parse |-> Failed("ParserError")],
      [name |-> "data.csv", parse |-> Parsed(<<RawC>>)],
      [name |-> "12.csv", parse |-> Parsed(<<>>)],
      [name |-> "03.txt", parse |-> Parsed(<<RawA>>)] }

Injective(s) == \A i, j \in 1 .. Len(s) : s[i].name = s[j].name => i = j
Distinct(s) == \A i, j \in 1 .. Len(s) : s[i] = s[j] => i = j

SeqsUpTo(S, k) == UNION {[1 .. m -> S] : m \in 0 .. k}

\* what os.listdir(year_path) may return
Listings == {fs \in SeqsUpTo(FilePool, MaxFiles) : Injective(fs)}

\* the root holds year folders and a plain file, in any order
EntryNames == {"2020", "2021", "notes.csv"}
NameSeqs == {ns \in SeqsUpTo(EntryNames, MaxEntries) : Distinct(ns)}
Folders(ns) == {i \in 1 .. Len(ns) : ns[i] # "notes.csv"}

TreeOf(ns, fs) ==
    [i \in 1 .. Len(ns) |->
        IF i \in Folders(ns)
        THEN [name |-> ns[i], isdir |-> TRUE, files |-> fs[i]]
        ELSE [name |-> ns[i], isdir |-> FALSE, files |-> <<>>]]

AsmIdle ==
    /\ tree = <<>> /\ apc = "idle" /\ ai = 1 /\ aj = 1
    /\ data_frames = <<>> /\ all_data = None /\ printed = <<>>
    /\ out_file = None /\ writes = 0

FmtIdle == fmt_in = NaN /\ fmt_out = None

AppIdle ==
    /\ csv = <<>> /\ cache = None /\ data = None /\ widgets = None /\ report = None

AsmInit ==
    /\ \E ns \in NameSeqs : \E fs \in [Folders(ns) -> Listings] : tree = TreeOf(ns, fs)
    /\ apc = "loop" /\ ai = 1 /\ aj = 1
    /\ data_frames = <<>> /\ all_data = None /\ printed = <<>>
    /\ out_file = None /\ writes = 0
    /\ FmtIdle
    /\ AppIdle

AsmNext ==
    \/ (SkipEntry /\ UNCHANGED <<fmt_vars, app_vars>>)
    \/ (NextYear /\ UNCHANGED <<fmt_vars, app_vars>>)
    \/ (SkipFile /\ UNCHANGED <<fmt_vars, app_vars>>)
    \/ (ReadOk /\ UNCHANGED <<fmt_vars, app_vars>>)
    \/ (ReadFail /\ UNCHANGED <<fmt_vars, app_vars>>)
    \/ (Combine /\ UNCHANGED <<fmt_vars, app_vars>>)

SpecAsm == AsmInit /\ [][AsmNext]_vars

(***************************************************************************)
(* What a run of the Assembler is expected to leave, read off the tree     *)
(***************************************************************************)
EntrySources(e) ==
    IF e.isdir
    THEN [j \in 1 .. Len(e.files) |-> [year |-> e.name, file |-> e.files[j]]]
    ELSE <<>>

\* the .csv files of the year folders, in listing order
CsvSources ==
    SelectSeq(Flatten([k \in 1 .. Len(tree) |-> EntrySources(tree[k])]),
              LAMBDA s : endswith(s.file.name, ".csv"))
ValidSources == SelectSeq(CsvSources, LAMBDA s : s.file.parse.ok)
InvalidSources == SelectSeq(CsvSources, LAMBDA s : ~s.file.parse.ok)

RECURSIVE RowCount(_)
RowCount(sources) ==
    IF sources = <<>> THEN 0
    ELSE Len(Head(sources).file.parse.rows) + RowCount(Tail(sources))

\* one [year, name] per row of the valid files, in listing order
RECURSIVE Provenance(_)
Provenance(sources) ==
    IF sources = <<>> THEN <<>>
    ELSE [k \in 1 .. Len(Head(sources).file.parse.rows) |->
             [year |-> Head(sources).year, name |-> Head(sources).file.name]]
         \o Provenance(Tail(sources))

Diagnostics == SelectSeq(printed, LAMBDA m : m[1] = "Error reading file")
Occurrences(msg) == Cardinality({k \in 1 .. Len(printed) : printed[k] = msg})

Digits == {"0", "1", "2", "3", "4", "5", "6", "7", "8", "9"}
TwoDigits(s) == Len(s) = 2 /\ SubSeq(s, 1, 1) \in Digits /\ SubSeq(s, 2, 2) \in Digits

\* C1: when the run ends, the tagged frames are those of the N valid .csv
\* files, the combined dataset has the sum of their row counts, and exactly
\* one diagnostic per invalid .csv file was printed, naming that file: a
\* failure stops nothing that follows it.
C1_PartialFailure ==
    apc = "done" =>
        /\ Len(data_frames) = Len(ValidSources)
        /\ \A k \in 1 .. Len(data_frames) :
               Len(data_frames[k]) = Len(ValidSources[k].file.parse.rows)
        /\ (ValidSources # <<>> =>
               all_data # None /\ Len(all_data[1]) = RowCount(ValidSources))
        /\ Len(Diagnostics) = Len(InvalidSources)
        /\ \A k \in 1 .. Len(Diagnostics) :
               Diagnostics[k][2] =
                   join(join(preprocessed_data_dir, InvalidSources[k].year),
                        InvalidSources[k].file.name)

\* a finished run in which an invalid file was listed before a valid one
C1_Witness ==
    /\ apc = "done"
    /\ all_data # None
    /\ Len(all_data[1]) = 3
    /\ Len(Diagnostics) >= 1
    /\ \E i, j \in 1 .. Len(CsvSources) :
           i < j /\ ~CsvSources[i].file.parse.ok /\ CsvSources[j].file.parse.ok

\* C2: nothing is written and "no data" is not reported before the run
\* ends; at its end, with no valid file nothing has been written and "no
\* data" is reported, and with a valid file the combined file has been
\* written exactly once and "no data" is not reported.
C2_NoDataOrOneWrite ==
    /\ apc # "done" => writes = 0 /\ out_file = None /\ Occurrences(NoDataMessage) = 0
    /\ apc = "done" =>
           IF ValidSources = <<>>
           THEN writes = 0 /\ out_file = None /\ Occurrences(NoDataMessage) = 1
           ELSE writes = 1 /\ out_file = all_data /\ out_file # None
                    /\ Occurrences(NoDataMessage) = 0

\* a finished run over a tree whose .csv files are all invalid
C2_Witness ==
    /\ apc = "done"
    /\ ValidSources = <<>>
    /\ Len(InvalidSources) >= 2
    /\ Occurrences(NoDataMessage) = 1

\* C10 as stated: every row of the combined dataset has a two-digit Month
\* and the Year of its folder, whatever the files are called.
C10_MonthAlwaysTwoDigits ==
    all_data # None =>
        /\ Len(all_data[1]) = Len(Provenance(ValidSources))
        /\ \A k \in 1 .. Len(all_data[1]) :
               /\ TwoDigits(all_data[1][k].Month)
               /\ all_data[1][k].Year = Provenance(ValidSources)[k].year

\* C10 amended: every row of the combined dataset has as Month the first
\* two characters of the name of its file (two characters, digits exactly
\* when the name starts with two digits) and as Year the name of its folder.
C10_MonthIsNamePrefix ==
    all_data # None =>
        /\ Len(all_data[1]) = Len(Provenance(ValidSources))
        /\ \A k \in 1 .. Len(all_data[1]) :
               LET src == Provenance(ValidSources)[k]
               IN  /\ Len(all_data[1][k].Month) = 2
                   /\ all_data[1][k].Month = SubSeq(src.name, 1, 2)
                   /\ all_data[1][k].Year = src.year

\* a combined dataset with a row from "data.csv" and a row from "01.csv"
C10_Witness ==
    /\ all_data # None
    /\ \E k \in 1 .. Len(all_data[1]) : all_data[1][k].Month = "da"
    /\ \E k \in 1 .. Len(all_data[1]) : all_data[1][k].Month = "01"

(***************************************************************************)
(* Aggregation and reporting (streamlit_analytics.py)                      *)
(***************************************************************************)
MonthNames ==
    <<"January", "February", "March", "April", "May", "June", "July",
      "August", "September", "October", "November", "December">>

\* month_names.get(month_num, "")
month_name(month_num) ==
    IF month_num \in 1 .. 12 THEN MonthNames[month_num] ELSE ""

\* int(x) of a string of decimal digits, as read_csv and int() parse it
DigitValue(c) == CHOOSE k \in 0 .. 9 : Digit(k) = c
RECURSIVE ParseInt(_)
ParseInt(s) ==
    IF Len(s) = 0 THEN 0
    ELSE 10 * ParseInt(SubSeq(s, 1, Len(s) - 1)) + DigitValue(SubSeq(s, Len(s), Len(s)))

\* pd.read_csv(..., parse_dates=["DateTime"]) and the MonthName column: the
\* Year and Month columns, written as text, come back as integers
LoadRow(r) ==
    [DateTime |-> r.DateTime, Total |-> r.Total, RATE_A |-> r.RATE_A,
     RATE_B |-> r.RATE_B, RATE_C |-> r.RATE_C,
     Year |-> ParseInt(r.Year), Month |-> ParseInt(r.Month),
     MonthName |-> month_name(ParseInt(r.Month))]

ReadCombined(rows) == [k \in 1 .. Len(rows) |-> LoadRow(rows[k])]

\* a column of a table as a Series: data['Year'], filtered_data['Total']
Col(rows, name) == [k \in 1 .. Len(rows) |-> rows[k][name]]
\* DateTime.dt.hour, DateTime.dt.day
Hour(rows) == [k \in 1 .. Len(rows) |-> rows[k].DateTime.h]
Day(rows) == [k \in 1 .. Len(rows) |-> rows[k].DateTime.d]

\* Series.unique() as a set
Unique(xs) == {xs[k] : k \in 1 .. Len(xs)}

\* Series.between(lo, hi), both ends included
between(x, lo, hi) == lo <= x /\ x <= hi

\* the day range with both ends left out
FilterOpen(rows, years, months, days) ==
    SelectSeq(rows, LAMBDA r :
        /\ r.Year \in years
        /\ r.Month \in months
        /\ days[1] < r.DateTime.d /\ r.DateTime.d < days[2])

\* data[isin(year_filter) & isin(month_filter) & dt.day.between(lo, hi)]
Filter(rows, years, months, days) ==
    SelectSeq(rows, LAMBDA r :
        /\ r.Year \in years
        /\ r.Month \in months
        /\ between(r.DateTime.d, days[1], days[2]))

RECURSIVE SumSeq(_)
SumSeq(xs) == IF xs = <<>> THEN 0 ELSE Head(xs) + SumSeq(Tail(xs))

SetMin(S) == CHOOSE x \in S : \A y \in S : x <= y
SetMax(S) == CHOOSE x \in S : \A y \in S : x >= y

\* the integers of S in ascending order (groupby sorts its keys)
RECURSIVE Ascending(_)
Ascending(S) ==
    IF S = {} THEN <<>>
    ELSE LET m == SetMin(S) IN <<m>> \o Ascending(S \ {m})

\* Series.mean(): the mean of no rows is NaN
Mean(xs) == [n |-> SumSeq(xs), d |-> Len(xs)]

\* the values of xs in the group of key k, 0 elsewhere, and the group's size
Masked(keys, xs, k) == [j \in 1 .. Len(xs) |-> IF keys[j] = k THEN xs[j] ELSE 0]
GroupSize(keys, k) == Cardinality({j \in 1 .. Len(keys) : keys[j] = k})

\* xs.groupby(keys).sum(): one [key, Total] per key, keys ascending
GroupSum(keys, xs) ==
    LET ks == Ascending(Unique(keys))
    IN  [i \in 1 .. Len(ks) |->
            [key |-> ks[i], Total |-> SumSeq(Masked(keys, xs, ks[i]))]]

\* xs.groupby(keys).mean()
GroupMean(keys, xs) ==
    LET ks == Ascending(Unique(keys))
    IN  [i \in 1 .. Len(ks) |->
            [key |-> ks[i],
             Total |-> [n |-> SumSeq(Masked(keys, xs, ks[i])),
                        d |-> GroupSize(keys, ks[i])]]]

Totals(series) == {series[i].Total : i \in 1 .. Len(series)}

\* Series.idxmax(), idxmin(): the label of the first occurrence
idxmax(series) ==
    series[SetMin({i \in 1 .. Len(series) : series[i].Total = SetMax(Totals(series))})].key
idxmin(series) ==
    series[SetMin({i \in 1 .. Len(series) : series[i].Total = SetMin(Totals(series))})].key
At(series, label) ==
    series[CHOOSE i \in 1 .. Len(series) : series[i].key = label].Total

\* Series.sort_values(ascending=False); numpy sorts so few entries by
\* insertion, which keeps equal values in their order
RECURSIVE SortDescending(_)
SortDescending(series) ==
    IF series = <<>> THEN <<>>
    ELSE LET i == SetMin({j \in 1 .. Len(series) :
                             series[j].Total = SetMax(Totals(series))})
         IN  <<series[i]>> \o
                 SortDescending(SubSeq(series, 1, i - 1)
                                    \o SubSeq(series, i + 1, Len(series)))

\* Series.mode()[0]: the most frequent value, the smallest on a tie
Count(xs, x) == Cardinality({k \in 1 .. Len(xs) : xs[k] = x})
Mode(xs) ==
    SetMin({x \in Unique(xs) : \A y \in Unique(xs) : Count(xs, x) >= Count(xs, y)})

\* 100 * sqrt(num / den) to the nearest integer: the least k at or above
\* `from` with (k + 1/2)^2 > 10000 * num / den, looked for in strides of
\* `step`, then of step / 10, down to 1
RECURSIVE SqrtHundredths(_, _, _, _)
SqrtHundredths(num, den, from, step) ==
    LET last == from + step - 1
    IN  IF (2 * last + 1) * (2 * last + 1) * den <= 40000 * num
        THEN SqrtHundredths(num, den, from + step, step)
        ELSE IF step = 1 THEN from
        ELSE SqrtHundredths(num, den, from, step \div 10)

\* Series.std(): the sample standard deviation, NaN below two rows.  The
\* value is irrational in general and is carried to the hundredth.
Std(xs) ==
    LET N == Len(xs)
        s == SumSeq(xs)
        q == SumSeq([k \in 1 .. N |-> xs[k] * xs[k]])
    IN  IF N <= 1 THEN NaN
        ELSE [n |-> SqrtHundredths(N * q - s * s, N * (N - 1), 0, 100), d |-> 100]

\* Timestamp.day_name(), by Sakamoto's rule
DayNames ==
    <<"Sunday", "Monday", "Tuesday", "Wednesday", "Thursday", "Friday", "Saturday">>
MonthOffsets == <<0, 3, 2, 5, 0, 3, 5, 1, 4, 6, 2, 4>>
day_name(dt) ==
    LET y == IF dt.mo < 3 THEN dt.y - 1 ELSE dt.y
    IN  DayNames[((y + y \div 4 - y \div 100 + y \div 400
                      + MonthOffsets[dt.mo] + dt.d) % 7) + 1]

\* the day names in the order groupby('Weekday') sorts them
WeekdaysSorted ==
    <<"Friday", "Monday", "Saturday", "Sunday", "Thursday", "Tuesday", "Wednesday">>
WeekdayRank(name) == CHOOSE i \in 1 .. 7 : WeekdaysSorted[i] = name

\* pivot_table(index=hour, columns=day, values='Total', aggfunc='mean'):
\* a cell no row falls in is NaN
Pivot(rows) ==
    LET hours == Ascending(Unique(Hour(rows)))
        days == Ascending(Unique(Day(rows)))
    IN  [index |-> hours, columns |-> days,
         z |-> [i \in 1 .. Len(hours) |-> [j \in 1 .. Len(days) |->
                   Mean(Col(SelectSeq(rows, LAMBDA r :
                                r.DateTime.h = hours[i] /\ r.DateTime.d = days[j]),
                            "Total"))]]]

(***************************************************************************)
(* main(): one pass of the script.  Its result is a record of what the     *)
(* page shows: the magnitudes written as text ([site, value, text], in     *)
(* display order), the tables handed to the charts, the insights, and the  *)
(* exception that ended the pass, if one did.                              *)
(***************************************************************************)
Magnitude(site, value, text) == [site |-> site, value |-> value, text |-> text]

\* a value written through format_number
Shown(site, value) == Magnitude(site, value, format_number(value))

\* bilingual_text(th, en)
bilingual_text(language, th, en) == IF language = "Thai" THEN th ELSE en

\* lines 46-52
dynamic_title(year_filter) ==
    IF Cardinality(year_filter) > 0
    THEN "Electricity Consumption Analysis for " \o Dec(SetMin(year_filter))
             \o " - " \o Dec(SetMax(year_filter))
             \o " (Over " \o Dec(Cardinality(year_filter)) \o " Year"
             \o (IF Cardinality(year_filter) > 1 THEN "s" ELSE "") \o ")"
    ELSE "Electricity Consumption Analysis"

\* line 71; start_year and end_year are bound only when year_filter is not empty
yearly_header(year_filter) ==
    "### Yearly Electricity Consumption (" \o Dec(SetMin(year_filter))
        \o " - " \o Dec(SetMax(year_filter)) \o ")"

\* the average written with thousands separators as well
OverviewGrouped(filtered_data) ==
    <<Magnitude("total_energy", Num(SumSeq(Col(filtered_data, "Total"))),
                FormatF2Grouped(Num(SumSeq(Col(filtered_data, "Total"))))),
      Magnitude("avg_energy", Mean(Col(filtered_data, "Total")),
                FormatF2Grouped(Mean(Col(filtered_data, "Total"))))>>

\* lines 65-68: the total as f"{total_energy:,.2f}", the average through
\* format_number
OverviewMetrics(filtered_data) ==
    <<Magnitude("total_energy", Num(SumSeq(Col(filtered_data, "Total"))),
                FormatF2Grouped(Num(SumSeq(Col(filtered_data, "Total"))))),
      Shown("avg_energy", Mean(Col(filtered_data, "Total")))>>

\* each year counted by its first row only
yearly_first(filtered_data) ==
    LET keys == Ascending(Unique(Col(filtered_data, "Year")))
    IN  [i \in 1 .. Len(keys) |->
            [key |-> keys[i],
             Total |-> SelectSeq(filtered_data, LAMBDA r : r.Year = keys[i])[1].Total]]

\* line 72
yearly_data(filtered_data) ==
    GroupSum(Col(filtered_data, "Year"), Col(filtered_data, "Total"))

\* lines 75-78: one label per bar
BarLabels(filtered_data) ==
    LET yd == yearly_data(filtered_data)
    IN  [i \in 1 .. Len(yd) |-> Shown("bar " \o Dec(yd[i].key), Num(yd[i].Total))]

\* line 86: groupby(['Year', 'Month', 'MonthName']); MonthName follows from
\* Month, and Month is below 100, so Year * 100 + Month orders the keys
YearMonth(rows) == [k \in 1 .. Len(rows) |-> rows[k].Year * 100 + rows[k].Month]
monthly_data(filtered_data) ==
    LET sums == GroupSum(YearMonth(filtered_data), Col(filtered_data, "Total"))
    IN  [i \in 1 .. Len(sums) |->
            [Year |-> sums[i].key \div 100, Month |-> sums[i].key % 100,
             MonthName |-> month_name(sums[i].key % 100), Total |-> sums[i].Total]]

\* line 111
daily_data(filtered_data) ==
    GroupMean(Hour(filtered_data), Col(filtered_data, "Total"))

\* lines 134-136
heatmap_data(filtered_data) == Pivot(filtered_data)

\* lines 192-193
max_total(filtered_data) == SetMax(Unique(Col(filtered_data, "Total")))
max_total_row(filtered_data) ==
    SelectSeq(filtered_data, LAMBDA r : r.Total = max_total(filtered_data))

\* the last of the tied rows
max_datetime_last(filtered_data) ==
    max_total_row(filtered_data)[Len(max_total_row(filtered_data))].DateTime

\* line 194: .iloc[0]
max_datetime(filtered_data) == max_total_row(filtered_data)[1].DateTime

\* line 220
peak_hour_freq(filtered_data) == Mode(Hour(max_total_row(filtered_data)))

\* lines 200-215, for one rate
RateLines(name, xs) ==
    <<Shown(name \o " Maximum", Num(SetMax(Unique(xs)))),
      Shown(name \o " Minimum", Num(SetMin(Unique(xs)))),
      Shown(name \o " Average", Mean(xs)),
      Shown(name \o " Standard Deviation", Std(xs))>>

\* line 224: filtered_data['Weekday'] = filtered_data['DateTime'].dt.day_name()
WithWeekday(filtered_data) ==
    [k \in 1 .. Len(filtered_data) |->
        [Weekday |-> day_name(filtered_data[k].DateTime), row |-> filtered_data[k]]]

\* line 225; a weekday is keyed by its place in the sorted names
weekday_usage(filtered_data) ==
    LET names == Col(WithWeekday(filtered_data), "Weekday")
    IN  SortDescending(
            GroupSum([k \in 1 .. Len(names) |-> WeekdayRank(names[k])],
                     Col(filtered_data, "Total")))

\* lines 168-227 on a table with rows, in display order
InsightMagnitudes(filtered_data) ==
    LET yearly_usage == GroupSum(Col(filtered_data, "Year"), Col(filtered_data, "Total"))
        monthly_usage == GroupSum(Col(filtered_data, "Month"), Col(filtered_data, "Total"))
        hourly_usage == GroupSum(Hour(filtered_data), Col(filtered_data, "Total"))
        wd == weekday_usage(filtered_data)
    IN  <<Shown("max_year", Num(At(yearly_usage, idxmax(yearly_usage)))),
          Shown("min_year", Num(At(yearly_usage, idxmin(yearly_usage)))),
          Shown("max_month", Num(At(monthly_usage, idxmax(monthly_usage)))),
          Shown("min_month", Num(At(monthly_usage, idxmin(monthly_usage)))),
          Shown("max_hour", Num(At(hourly_usage, idxmax(hourly_usage)))),
          Shown("min_hour", Num(At(hourly_usage, idxmin(hourly_usage)))),
          Shown("max_total", Num(max_total(filtered_data)))>>
        \o RateLines("RATE A", Col(filtered_data, "RATE_A"))
        \o RateLines("RATE B", Col(filtered_data, "RATE_B"))
        \o RateLines("RATE C", Col(filtered_data, "RATE_C"))
        \o <<Shown("weekday_max", Num(SetMax(Totals(wd)))),
             Shown("weekday_min", Num(SetMin(Totals(wd))))>>

Insights(filtered_data, language) ==
    LET yearly_usage == GroupSum(Col(filtered_data, "Year"), Col(filtered_data, "Total"))
        monthly_usage == GroupSum(Col(filtered_data, "Month"), Col(filtered_data, "Total"))
        hourly_usage == GroupSum(Hour(filtered_data), Col(filtered_data, "Total"))
        wd == weekday_usage(filtered_data)
    IN  [labels |-> bilingual_text(language, "th", "en"),
         max_year |-> idxmax(yearly_usage),
         min_year |-> idxmin(yearly_usage),
         max_month_name |-> month_name(idxmax(monthly_usage)),
         min_month_name |-> month_name(idxmin(monthly_usage)),
         max_hour |-> idxmax(hourly_usage),
         min_hour |-> idxmin(hourly_usage),
         max_datetime |-> max_datetime(filtered_data),
         peak_hour_freq |-> peak_hour_freq(filtered_data),
         weekday_max |-> WeekdaysSorted[idxmax(wd)],
         weekday_min |-> WeekdaysSorted[idxmin(wd)]]

Raised(exception, line) == Some([exception |-> exception, line |-> line])

Charts(filtered_data) ==
    Some([yearly_data |-> yearly_data(filtered_data),
          monthly_data |-> monthly_data(filtered_data),
          daily_data |-> daily_data(filtered_data),
          heatmap_data |-> heatmap_data(filtered_data)])

\* main() on the table load_data() returned and the values of the widgets.
\* With no year selected, start_year is unbound when line 71 reads it.
\* With no row left, idxmax() of the empty yearly_usage raises at line 170
\* (the chart calls before it are the chart layer's and are taken to accept
\* empty tables).
main(table, year_filter, month_filter, day_filter, language) ==
    LET filtered_data == Filter(table, year_filter, month_filter, day_filter)
        title == dynamic_title(year_filter)
    IN  IF year_filter = {}
        THEN [title |-> title, filtered_data |-> filtered_data,
              raised |-> Raised("UnboundLocalError", 71),
              header |-> None,
              magnitudes |-> OverviewMetrics(filtered_data),
              charts |-> None, insights |-> None, table |-> None]
        ELSE IF filtered_data = <<>>
        THEN [title |-> title, filtered_data |-> filtered_data,
              raised |-> Raised("ValueError", 170),
              header |-> Some(yearly_header(year_filter)),
              magnitudes |-> OverviewMetrics(filtered_data) \o BarLabels(filtered_data),
              charts |-> Charts(filtered_data), insights |-> None, table |-> None]
        ELSE [title |-> title, filtered_data |-> filtered_data,
              raised |-> None,
              header |-> Some(yearly_header(year_filter)),
              magnitudes |-> OverviewMetrics(filtered_data) \o BarLabels(filtered_data)
                                 \o InsightMagnitudes(filtered_data),
              charts |-> Charts(filtered_data),
              insights |-> Some(Insights(filtered_data, language)),
              table |-> Some(WithWeekday(filtered_data))]

(***************************************************************************)
(* The page.  A pass of the script runs when a session opens the page and  *)
(* whenever a widget changes.  load_data() is wrapped in @st.cache: with   *)
(* no arguments it has one cache entry, keyed by the function only, shared *)
(* by all sessions of the server; the file is read on a miss only.         *)
(***************************************************************************)
load_data == IF cache = None THEN ReadCombined(csv) ELSE cache[1]

\* the widgets' defaults: every year and month of the table, days 1 to 31
Defaults(table) ==
    [year_filter |-> Unique(Col(table, "Year")),
     month_filter |-> Unique(Col(table, "Month")),
     day_filter |-> <<1, 31>>, language |-> "English"]

Pass(w) ==
    /\ cache' = Some(load_data)
    /\ data' = Some(load_data)
    /\ widgets' = Some(w)
    /\ report' = Some(main(load_data, w.year_filter, w.month_filter,
                           w.day_filter, w.language))
    /\ UNCHANGED csv

\* a session opens the page
Open == Pass(Defaults(load_data))

\* an option of a multiselect picked or removed
Toggle(S, x) == IF x \in S THEN S \ {x} ELSE S \cup {x}

\* st.sidebar.multiselect("Select Year(s)", ...): one option is picked or
\* removed, and the script runs again
SelectYears ==
    /\ widgets # None
    /\ \E y \in Unique(Col(load_data, "Year")) :
           Pass([widgets[1] EXCEPT !.year_filter = Toggle(@, y)])

\* st.sidebar.multiselect("Select Month(s)", ...)
SelectMonths ==
    /\ widgets # None
    /\ \E m \in Unique(Col(load_data, "Month")) :
           Pass([widgets[1] EXCEPT !.month_filter = Toggle(@, m)])

\* the days a handle of the slider is dropped on
SliderStops == {1, 5, 31}

\* st.sidebar.slider("Select Day Range", min_value=1, max_value=31): one
\* handle is moved, the lower one never past the upper one
SlideDays ==
    /\ widgets # None
    /\ \E lo, hi \in SliderStops :
           /\ lo <= hi
           /\ (lo = widgets[1].day_filter[1]) # (hi = widgets[1].day_filter[2])
           /\ Pass([widgets[1] EXCEPT !.day_filter = <<lo, hi>>])

\* st.sidebar.radio("Choose Language", ...)
ChooseLanguage ==
    /\ widgets # None
    /\ \E l \in {"English", "Thai"} :
           /\ l # widgets[1].language
           /\ Pass([widgets[1] EXCEPT !.language = l])

(***************************************************************************)
(* Combined datasets the page is run on: rows as the Assembler writes them *)
(***************************************************************************)
MaxRows == 3

\* two rows share the largest Total at different hours; the third row, of
\* another year, is the last interval of January 2021, stamped 1 February
RowPool ==
    { TagRow(Raw(DT(2020, 1, 5, 5), 5000, 1, 2, 0), "2020", "01"),
      TagRow(Raw(DT(2020, 2, 9, 3), 5000, 2, 0, 1), "2020", "02"),
      TagRow(Raw(DT(2021, 2, 1, 0), 500, 0, 2, 2), "2021", "01") }

Datasets == SeqsUpTo(RowPool, MaxRows)

Init ==
    /\ csv \in Datasets
    /\ cache = None /\ data = None /\ widgets = None /\ report = None
    /\ FmtIdle
    /\ AsmIdle

Next ==
    \/ (Open /\ UNCHANGED <<fmt_vars, asm_vars>>)
    \/ (SelectYears /\ UNCHANGED <<fmt_vars, asm_vars>>)
    \/ (SelectMonths /\ UNCHANGED <<fmt_vars, asm_vars>>)
    \/ (SlideDays /\ UNCHANGED <<fmt_vars, asm_vars>>)
    \/ (ChooseLanguage /\ UNCHANGED <<fmt_vars, asm_vars>>)

Spec == Init /\ [][Next]_vars

(***************************************************************************)
(* The page while the Assembler rewrites the combined file                 *)
(***************************************************************************)
\* combined_dataset.py is run again after a month file was added to the tree
\* or the last one was removed: to_csv replaces the combined file
Rewrites(rows) ==
    (IF Len(rows) < MaxRows THEN {Append(rows, r) : r \in RowPool} ELSE {})
        \cup (IF rows # <<>> THEN {SubSeq(rows, 1, Len(rows) - 1)} ELSE {})

Rewrite ==
    /\ csv' \in Rewrites(csv)
    /\ UNCHANGED <<cache, data, widgets, report>>

\* the browser session ends; what st.cache holds belongs to the server
\* process and stays
Close ==
    /\ widgets # None
    /\ data' = None
    /\ widgets' = None
    /\ report' = None
    /\ UNCHANGED <<csv, cache>>

CacheNext ==
    \/ (Open /\ UNCHANGED <<fmt_vars, asm_vars>>)
    \/ (Rewrite /\ UNCHANGED <<fmt_vars, asm_vars>>)
    \/ (Close /\ UNCHANGED <<fmt_vars, asm_vars>>)

SpecCache == Init /\ [][CacheNext]_vars

(***************************************************************************)
(* Properties of the page                                                  *)
(***************************************************************************)
Shows == report[1].magnitudes
Sites == {Shows[k].site : k \in 1 .. Len(Shows)}

\* C3: a pass whose selection matches no row runs to its end without
\* raising, and leaves every metric and every insight defined.
C3_EmptySelectionCompletes ==
    (report # None /\ report[1].filtered_data = <<>>) =>
        /\ report[1].raised = None
        /\ report[1].charts # None
        /\ report[1].insights # None

\* C4: the filtered table is, in the order of the loaded table, exactly the
\* rows whose Year is a selected year, whose Month is a selected month and
\* whose day of month lies in [lo, hi]; and 1 <= lo <= hi <= 31.
C4_FilterExact ==
    report # None =>
        LET d == data[1]
            w == widgets[1]
            f == report[1].filtered_data
            lo == w.day_filter[1]
            hi == w.day_filter[2]
            keep == {k \in 1 .. Len(d) :
                        /\ d[k].Year \in w.year_filter
                        /\ d[k].Month \in w.month_filter
                        /\ lo <= d[k].DateTime.d /\ d[k].DateTime.d <= hi}
        IN  /\ 1 <= lo /\ lo <= hi /\ hi <= 31
            /\ Len(f) = Cardinality(keep)
            /\ \A k \in keep : f[Cardinality({j \in keep : j <= k})] = d[k]

\* a pass that keeps a row on the upper edge of the day range and drops one
\* row by its year and one by its month
C4_Witness ==
    /\ report # None
    /\ LET d == data[1]
           w == widgets[1]
       IN  /\ \E k \in 1 .. Len(report[1].filtered_data) :
                  report[1].filtered_data[k].DateTime.d = w.day_filter[2]
           /\ \E k \in 1 .. Len(d) : d[k].Year \notin w.year_filter
           /\ \E k \in 1 .. Len(d) :
                  d[k].Year \in w.year_filter /\ d[k].Month \notin w.month_filter

\* C5: the Total shown as total energy, the sum of the per-year sums and the
\* sum of the per-(Year, Month, MonthName) sums are the sum of Total over
\* the filtered rows.
C5_SumsDecompose ==
    (report # None /\ report[1].charts # None) =>
        LET f == report[1].filtered_data
            overall == SumSeq([k \in 1 .. Len(f) |-> f[k].Total])
            yd == report[1].charts[1].yearly_data
            md == report[1].charts[1].monthly_data
        IN  /\ Shows[1].site = "total_energy"
            /\ Shows[1].value = Num(overall)
            /\ SumSeq([k \in 1 .. Len(yd) |-> yd[k].Total]) = overall
            /\ SumSeq([k \in 1 .. Len(md) |-> md[k].Total]) = overall

\* a pass over three rows in two years and three (Year, Month) groups
C5_Witness ==
    /\ report # None
    /\ report[1].charts # None
    /\ Len(report[1].filtered_data) = 3
    /\ Len(report[1].charts[1].yearly_data) = 2
    /\ Len(report[1].charts[1].monthly_data) = 3

\* C6: with rows left, the pass completes; the timestamp shown for the
\* largest Total is that of the first filtered row holding it, and the peak
\* hour is the hour most frequent among the rows holding it, the smallest
\* such hour when several are equally frequent.
C6_FirstOfTiesAndMode ==
    (report # None /\ report[1].filtered_data # <<>>) =>
        LET f == report[1].filtered_data
            top == CHOOSE t \in {f[k].Total : k \in 1 .. Len(f)} :
                       \A k \in 1 .. Len(f) : f[k].Total <= t
            tied == {k \in 1 .. Len(f) : f[k].Total = top}
            first == CHOOSE k \in tied : \A j \in tied : k <= j
            times(h) == Cardinality({k \in tied : f[k].DateTime.h = h})
            most == {f[k].DateTime.h : k \in tied}
            peak == CHOOSE h \in most :
                        \A g \in most :
                            times(h) > times(g) \/ (times(h) = times(g) /\ h <= g)
        IN  /\ report[1].insights # None
            /\ report[1].insights[1].max_datetime = f[first].DateTime
            /\ report[1].insights[1].peak_hour_freq = peak

\* three rows hold the largest Total, and the peak hour is neither the hour
\* of the first of them nor the smallest of their hours
C6_Witness ==
    /\ report # None
    /\ report[1].insights # None
    /\ LET f == report[1].filtered_data
       IN  /\ Len(f) = 3
           /\ \A k \in 1 .. 3 : f[k].Total = f[1].Total
           /\ report[1].insights[1].peak_hour_freq # f[1].DateTime.h
           /\ report[1].insights[1].max_datetime = f[1].DateTime
           /\ f[3].DateTime # f[1].DateTime

InsightSites ==
    {"max_year", "min_year", "max_month", "min_month", "max_hour", "min_hour",
     "max_total", "weekday_max", "weekday_min"}
        \cup {r \o " " \o q : r \in {"RATE A", "RATE B", "RATE C"},
                              q \in {"Maximum", "Minimum", "Average", "Standard Deviation"}}

C9_PassReadsCurrentFile ==
    [][Open => data' = Some(ReadCombined(csv))]_vars

(***************************************************************************)
(* format_number on its own: the argument is drawn from windows around 0,  *)
(* 1,000 and 1,000,000, the spec's three examples, halves, negatives, NaN  *)
(***************************************************************************)
FmtWindow == 12

FmtIntegers ==
    (-FmtWindow .. FmtWindow)
        \cup ((Thousand - FmtWindow) .. (Thousand + FmtWindow))
        \cup ((Million - FmtWindow) .. (Million + FmtWindow))
        \cup {500, 5000, 5000000, 999994, 999996, 1234567}

FmtInputs ==
    {Num(k) : k \in FmtIntegers}
        \cup {[n |-> 2 * k + 1, d |-> 2] : k \in (Thousand - 2) .. (Thousand + 1)}
        \cup {[n |-> 2 * k + 1, d |-> 2] : k \in (Million - 2) .. (Million + 1)}
        \cup {NaN}

FmtInit ==
    /\ fmt_in \in FmtInputs
    /\ fmt_out = None
    /\ AsmIdle
    /\ AppIdle

Format ==
    /\ fmt_out = None
    /\ fmt_out' = Some(format_number(fmt_in))
    /\ UNCHANGED <<fmt_in, asm_vars, app_vars>>

FmtNext == Format

SpecFmt == FmtInit /\ [][FmtNext]_vars

\* C8: format_number(v) is v/1,000,000 to two decimals and "M" when
\* v >= 1,000,000, v/1,000 to two decimals and "K" when
\* 1,000 <= v < 1,000,000, and v to two decimals otherwise; 500, 5,000 and
\* 5,000,000 read "500.00", "5.00K" and "5.00M"; 1,000 and 1,000,000 take
\* the K and the M form.
C8_FormatNumberRule ==
    fmt_out # None =>
        LET v == fmt_in
            s == fmt_out[1]
            big == ~IsNaN(v) /\ v.n >= 1000000 * v.d
            mid == ~IsNaN(v) /\ v.n >= 1000 * v.d /\ v.n < 1000000 * v.d
        IN  /\ big => s = Fixed2(v.n, 1000000 * v.d) \o "M"
            /\ mid => s = Fixed2(v.n, 1000 * v.d) \o "K"
            /\ (~big /\ ~mid) => s = FormatF2(v)
            /\ v = Num(500) => s = "500.00"
            /\ v = Num(5000) => s = "5.00K"
            /\ v = Num(5000000) => s = "5.00M"
            /\ v = Num(1000) => s = "1.00K"
            /\ v = Num(1000000) => s = "1.00M"
            /\ v = Num(999) => s = "999.00"
            /\ v = [n |-> 1999, d |-> 2] => s = "999.50"
            /\ v = Num(999999) => s = "1000.00K"

\* 1,000 has been formatted and reads "1.00K"
C8_Witness ==
    /\ fmt_in = Num(1000)
    /\ fmt_out = Some("1.00K")

=============================================================================
